---- MODULE Spec2Model ----
(***************************************************************************)
(* Model of the pyinfra-carryall connectors:                               *)
(*   connectors/incus.py            IncusConnector / LXCConnector          *)
(*   connectors/microsoft_azure.py  AzureConnector                         *)
(*                                                                         *)
(* Python strings are sequences of one-character strings, byte strings are *)
(* sequences of small naturals.  A generator is a record holding its       *)
(* position; each next() on it is one action.                              *)
(***************************************************************************)
EXTENDS Naturals, Sequences, FiniteSets

VARIABLES
    gen,      \* the make_names_data generator being consumed (either connector)
    cache,    \* lru_cache of AzureConnector._azure_vm_list, least recent first
    az,       \* the last direct call of AzureConnector.query / _azure_vm_list
    azprev,   \* the call before it
    tmpfs,    \* staging files on the controlling machine: name -> content
    instfs,   \* files inside the instances, as the CLI stores them
    dest,     \* the destination handed to the current get_file call
    tr        \* the put_file / get_file call in progress or just finished

vars == <<gen, cache, az, azprev, tmpfs, instfs, dest, tr>>

(***************************************************************************)
(* Bounds of the model                                                     *)
(***************************************************************************)
MaxNameLen == 3
MaxRows == 2
MaxTmp == 2
MaxFilters == 2

(***************************************************************************)
(* Python str helpers                                                      *)
(***************************************************************************)
RECURSIVE SeqsUpTo(_, _)
SeqsUpTo(S, n) ==
    IF n = 0 THEN {<<>>}
    ELSE LET shorter == SeqsUpTo(S, n - 1)
         IN  shorter \cup {Append(s, c) : s \in {t \in shorter : Len(t) = n - 1}, c \in S}

Contains(s, c) == \E i \in 1..Len(s) : s[i] = c

\* str.find: index of the first c, 0 when absent
IndexOf(s, c) ==
    IF Contains(s, c)
    THEN CHOOSE i \in 1..Len(s) : s[i] = c /\ \A j \in 1..(i - 1) : s[j] # c
    ELSE 0

\* str.rfind: index of the last c, 0 when absent
LastIndexOf(s, c) ==
    IF Contains(s, c)
    THEN CHOOSE i \in 1..Len(s) : s[i] = c /\ \A j \in (i + 1)..Len(s) : s[j] # c
    ELSE 0

\* str.partition(c): <<head, sep, tail>>, <<s, "", "">> when c is absent
Partition(s, c) ==
    LET i == IndexOf(s, c)
    IN  IF i = 0 THEN <<s, <<>>, <<>>>>
        ELSE <<SubSeq(s, 1, i - 1), <<c>>, SubSeq(s, i + 1, Len(s))>>

\* str.rpartition(c): <<head, sep, tail>>, <<"", "", s>> when c is absent
RPartition(s, c) ==
    LET i == LastIndexOf(s, c)
    IN  IF i = 0 THEN <<<<>>, <<>>, s>>
        ELSE <<SubSeq(s, 1, i - 1), <<c>>, SubSeq(s, i + 1, Len(s))>>

\* str.lstrip(c)
RECURSIVE LStrip(_, _)
LStrip(s, c) ==
    IF s # <<>> /\ Head(s) = c THEN LStrip(Tail(s), c) ELSE s

\* str.removeprefix(p)
RemovePrefix(s, p) ==
    IF Len(s) >= Len(p) /\ SubSeq(s, 1, Len(p)) = p
    THEN SubSeq(s, Len(p) + 1, Len(s))
    ELSE s

\* the characters of the model's strings that Unicode classes as letters
\* (categories L*): those of ASCII and Latin-1 and some of other scripts;
\* digits, punctuation, blanks and "_" are not letters
AsciiLower == {"a", "b", "c", "d", "e", "f", "g", "h", "i", "j", "k", "l", "m",
               "n", "o", "p", "q", "r", "s", "t", "u", "v", "w", "x", "y", "z"}
AsciiUpper == {"A", "B", "C", "D", "E", "F", "G", "H", "I", "J", "K", "L", "M",
               "N", "O", "P", "Q", "R", "S", "T", "U", "V", "W", "X", "Y", "Z"}
\* the letters of Latin-1 outside ASCII
Latin1Letters == {"ª", "µ", "º", "À", "Á", "Â", "Ã", "Ä", "Å", "Æ", "Ç", "È",
                  "É", "Ê", "Ë", "Ì", "Í", "Î", "Ï", "Ð", "Ñ", "Ò", "Ó", "Ô",
                  "Õ", "Ö", "Ø", "Ù", "Ú", "Û", "Ü", "Ý", "Þ", "ß", "à", "á",
                  "â", "ã", "ä", "å", "æ", "ç", "è", "é", "ê", "ë", "ì", "í",
                  "î", "ï", "ð", "ñ", "ò", "ó", "ô", "õ", "ö", "ø", "ù", "ú",
                  "û", "ü", "ý", "þ", "ÿ"}
\* letters of other scripts
OtherLetters == {"Ω", "λ", "α", "β", "Δ", "Σ", "π", "א", "日", "語", "文"}
Letters == AsciiLower \cup AsciiUpper \cup Latin1Letters \cup OtherLetters

\* str.isalpha(): non-empty and every character a letter
IsAlpha(s) == s # <<>> /\ \A i \in 1..Len(s) : s[i] \in Letters

\* str.replace(c, r) for a one-character c
RECURSIVE Replace(_, _, _)
Replace(s, c, r) ==
    IF s = <<>> THEN <<>>
    ELSE (IF Head(s) = c THEN r ELSE <<Head(s)>>) \o Replace(Tail(s), c, r)

\* str.split(c): always at least one element
RECURSIVE Split(_, _)
Split(s, c) ==
    LET i == IndexOf(s, c)
    IN  IF i = 0 THEN <<s>>
        ELSE <<SubSeq(s, 1, i - 1)>> \o Split(SubSeq(s, i + 1, Len(s)), c)

\* filter(None, parts): drops the empty strings
RECURSIVE FilterNonEmpty(_)
FilterNonEmpty(parts) ==
    IF parts = <<>> THEN <<>>
    ELSE (IF Head(parts) = <<>> THEN <<>> ELSE <<Head(parts)>>)
         \o FilterNonEmpty(Tail(parts))

\* sep.join(parts)
RECURSIVE Join(_, _)
Join(sep, parts) ==
    IF parts = <<>> THEN <<>>
    ELSE IF Len(parts) = 1 THEN Head(parts)
    ELSE Head(parts) \o sep \o Join(sep, Tail(parts))

(***************************************************************************)
(* Python values that the connectors inspect dynamically                   *)
(***************************************************************************)
None == [t |-> "None", s |-> <<>>, items |-> <<>>]
PyStr(s) == [t |-> "str", s |-> s, items |-> <<>>]
PyMethod(n) == [t |-> "method", s |-> <<n>>, items |-> <<>>]
\* a dict of str to str, in insertion order
PyDict(items) == [t |-> "dict", s |-> <<>>, items |-> items]
Item(k, v) == [key |-> k, value |-> v]

\* bool(v)
Truthy(v) == IF v.t = "None" THEN FALSE ELSE IF v.t = "str" THEN v.s # <<>> ELSE TRUE

\* names getattr finds on a str object (its methods)
StrAttributes == {"capitalize", "encode", "format", "lower", "strip", "upper"}

\* getattr(obj, attr, default) for obj a str
GetAttr(obj, attr, default) ==
    IF obj.t = "str" /\ attr \in StrAttributes THEN PyMethod(attr) ELSE default

(***************************************************************************)
(* IncusConnector.make_names_data                                          *)
(***************************************************************************)
Classes == {"incus", "lxc"}

\* cls.cmd
Cmd(cls) == IF cls = "lxc" THEN <<"l", "x", "c">> ELSE <<"i", "n", "c", "u", "s">>

NameAlphabet == {"a", ":", "/"}
NoName == [none |-> TRUE, s |-> <<>>]
GivenName(s) == [none |-> FALSE, s |-> s]
\* the name argument: None or a string, "/" at most once (the connector prefix
\* separator)
NameArgs ==
    {NoName}
    \cup {GivenName(s) : s \in {t \in SeqsUpTo(NameAlphabet, MaxNameLen) :
                                   Cardinality({i \in 1..Len(t) : t[i] = "/"}) <= 1}}

Ip1 == <<"1", "0", ".", "0", ".", "0", ".", "5">>
Ip2 == <<"1", "0", ".", "0", ".", "0", ".", "6">>
Dev(k, ip) == [key |-> k, ip |-> ip]
Eth0 == <<"e", "t", "h", "0">>
Eth1 == <<"e", "t", "h", "1">>

\* one element of the CLI's JSON array; ip = <<>>: the device has no ipv4.address
Row(hasName, name, devKind, devices) ==
    [hasName |-> hasName, name |-> name, devKind |-> devKind, devices |-> devices]

RowPool ==
    { Row(TRUE, <<"a">>, "dict", <<Dev(Eth0, Ip1)>>),
      Row(TRUE, <<"b">>, "dict", <<Dev(Eth0, <<>>), Dev(Eth1, Ip2)>>),
      Row(TRUE, <<"b">>, "dict", <<Dev(Eth0, Ip1), Dev(Eth1, Ip2)>>),
      Row(TRUE, <<"b">>, "absent", <<>>),
      Row(FALSE, <<>>, "dict", <<>>),
      Row(TRUE, <<"a">>, "null", <<>>) }

\* what local.shell gives: it raises on a non-zero exit, else returns stdout,
\* which json.loads parses or rejects
ShellOutputs ==
    {[kind |-> "error", rows |-> <<>>], [kind |-> "badjson", rows |-> <<>>]}
    \cup {[kind |-> "json", rows |-> r] : r \in SeqsUpTo(RowPool, MaxRows)}

\* name.partition("/")[-1] if "/" in name else name
RemoteInstance(name) ==
    IF name.none THEN <<>>
    ELSE IF Contains(name.s, "/") THEN Partition(name.s, "/")[3] ELSE name.s

\* the command list joined by the caller with " "
ListCommand(cls, name) ==
    <<Cmd(cls), <<"list --all-projects -c nc -f json">>>>
    \o (IF name.none THEN <<>> ELSE <<RemoteInstance(name)>>)

\* if remote: remote += ":" (RemotePrefixNoDelimiter: the delimiter forgotten)
RemotePrefixNoDelimiter(remote) == remote
RemotePrefix(remote) == IF remote # <<>> THEN remote \o <<":">> ELSE remote

\* remote, instance = remote_instance.rpartition(":")[::2], then the prefix
SplitRemote(remote_instance) ==
    LET parts == RPartition(remote_instance, ":")
    IN  [remote |-> RemotePrefix(parts[1]), instance |-> parts[3]]

\* iterating row.get("devices", ""): the keys of a dict, the characters of the
\* default "", a TypeError for null
DeviceIteration(row) ==
    IF row.devKind = "null" THEN [error |-> "TypeError", items |-> <<>>]
    ELSE IF row.devKind = "absent" THEN [error |-> "", items |-> <<>>]
    ELSE [error |-> "", items |-> [i \in 1..Len(row.devices) |-> PyStr(row.devices[i].key)]]

\* the for/else-less loop with break: the first truthy getattr result
RECURSIVE FirstAddress(_)
FirstAddress(devs) ==
    IF devs = <<>> THEN None
    ELSE LET address == GetAttr(Head(devs), "ipv4.address", None)
         IN  IF Truthy(address) THEN address ELSE FirstAddress(Tail(devs))

InventoryRecord(id, data, groups) == [id |-> id, data |-> data, groups |-> groups]

IncusData(identifier, address) ==
    [identifier |-> identifier, has_ssh |-> Truthy(address), ssh_hostname |-> address]

IncusRecord(cls, remote, row, address) ==
    InventoryRecord(<<"@">> \o Cmd(cls) \o <<"/">> \o remote \o row.name,
                    IncusData(remote \o row.name, address),
                    <<<<"@">> \o Cmd(cls)>>)

\* one pass of the loop body: the record it yields, or the error it raises
\* (RowOutcomeYieldFirst: the faulty order, the record handed out before the
\* devices are looked at)
RowOutcomeYieldFirst(cls, remote, row) ==
    IF ~row.hasName THEN [error |-> "KeyError", yields |-> <<>>]
    ELSE [error |-> DeviceIteration(row).error,
          yields |-> <<IncusRecord(cls, remote, row, FirstAddress(DeviceIteration(row).items))>>]

RowOutcome(cls, remote, row) ==
    IF ~row.hasName THEN [error |-> "KeyError", yields |-> <<>>]
    ELSE LET it == DeviceIteration(row)
         IN  IF it.error # "" THEN [error |-> it.error, yields |-> <<>>]
             ELSE [error |-> "",
                   yields |-> <<IncusRecord(cls, remote, row, FirstAddress(it.items))>>]

NoGen ==
    [conn |-> "none", pc |-> "none", name |-> NoName, remote_instance |-> <<>>,
     remote |-> <<>>, instance |-> <<>>, command |-> <<>>, rows |-> <<>>,
     idx |-> 0, yielded |-> <<>>, error |-> "", inventory |-> <<>>, fetch |-> "" ]

GenIdle == gen.pc \in {"none", "finished", "raised"}

\* calling the generator function runs none of its body
IncusMakeNamesData(cls, name) ==
    /\ GenIdle
    /\ gen' = [NoGen EXCEPT !.conn = cls, !.pc = "created", !.name = name]
    /\ UNCHANGED <<cache, az, azprev, tmpfs, instfs, dest, tr>>

\* the loop from row idx + 1 up to the next yield, error or exhaustion
IncusLoop(g) ==
    IF g.idx = Len(g.rows) THEN [g EXCEPT !.pc = "finished"]
    ELSE LET o == RowOutcome(g.conn, g.remote, g.rows[g.idx + 1])
         IN  IF o.error # ""
             THEN [g EXCEPT !.pc = "raised", !.error = o.error, !.idx = g.idx + 1,
                            !.yielded = g.yielded \o o.yields]
             ELSE [g EXCEPT !.pc = "suspended", !.idx = g.idx + 1,
                            !.yielded = g.yielded \o o.yields]

\* first next(): lines 98-114, then the loop
IncusFirstNext(out) ==
    /\ gen.conn \in Classes /\ gen.pc = "created"
    /\ LET ri == RemoteInstance(gen.name)
           sp == SplitRemote(ri)
           g  == [gen EXCEPT !.remote_instance = ri, !.remote = sp.remote,
                             !.instance = sp.instance,
                             !.command = ListCommand(gen.conn, gen.name)]
       IN  gen' = IF out.kind = "error" THEN [g EXCEPT !.pc = "raised", !.error = "PyinfraError"]
                  ELSE IF out.kind = "badjson"
                       THEN [g EXCEPT !.pc = "raised", !.error = "JSONDecodeError"]
                  ELSE IncusLoop([g EXCEPT !.rows = out.rows])
    /\ UNCHANGED <<cache, az, azprev, tmpfs, instfs, dest, tr>>

\* a later next(): resumes after the yield
IncusResume ==
    /\ gen.conn \in Classes /\ gen.pc = "suspended"
    /\ gen' = IncusLoop(gen)
    /\ UNCHANGED <<cache, az, azprev, tmpfs, instfs, dest, tr>>


(***************************************************************************)
(* AzureConnector.query                                                    *)
(***************************************************************************)
K_where == <<"w", "h", "e", "r", "e">>
K_name == <<"n", "a", "m", "e">>
K_resourceGroup == <<"r", "e", "s", "o", "u", "r", "c", "e", "G", "r", "o", "u", "p">>
K_location == <<"l", "o", "c", "a", "t", "i", "o", "n">>
K_dashed == <<"a", "-", "b">>
K_digit == <<"a", "1">>
K_accent == <<"c", "l", "é">>

V_empty == <<>>
V_dev == <<"d", "e", "v">>
V_list == <<"d", ",", ",", "p">>
V_quote == <<"o", "'", "x">>

FieldNames == {K_location, K_resourceGroup, K_accent, K_dashed, K_digit}
FieldValues == {V_empty, V_list, V_quote}

DistinctKeys(m) == \A i, j \in 1..Len(m) : i # j => m[i].key # m[j].key

\* dict[str, str] arguments of query, in insertion order
Mappings ==
    {m \in SeqsUpTo({Item(k, v) : k \in FieldNames, v \in FieldValues}, MaxFilters) :
        DistinctKeys(m)}

\* "| where {key} in~ ('...')"
WhereClause(key, value) ==
    <<"| where ">> \o key \o <<" in~ ('">>
    \o Join(<<"'", ",", "'">>,
            FilterNonEmpty(Split(Replace(value, "'", <<"'", "'">>), ",")))
    \o <<"')">>

\* the loop over where.items(): stops at the first key that is not alphabetic
RECURSIVE QueryLoop(_, _)
QueryLoop(items, clauses) ==
    IF items = <<>> THEN [error |-> "", key |-> <<>>, clauses |-> clauses]
    ELSE LET it == Head(items)
         IN  IF ~IsAlpha(it.key)
             THEN [error |-> "ValueError", key |-> it.key, clauses |-> <<>>]
             ELSE QueryLoop(Tail(items),
                            IF it.value # <<>>
                            THEN Append(clauses, WhereClause(it.key, it.value))
                            ELSE clauses)

\* query(where): where.items() needs a mapping; the result is the text put
\* into the fixed query, " ".join(additional_where)
Query(where) ==
    IF where.t # "dict" THEN [error |-> "AttributeError", key |-> <<>>, text |-> <<>>]
    ELSE LET r == QueryLoop(where.items, <<>>)
         IN  [error |-> r.error, key |-> r.key, text |-> Join(<<" ">>, r.clauses)]

(***************************************************************************)
(* AzureConnector._azure_vm_list behind functools.lru_cache(8)             *)
(***************************************************************************)
CacheSize == 8

\* keyword arguments of a call, in the order given; values are Python values
Kw(k, v) == Item(k, PyStr(v))
Kwargs ==
    { <<>>,
      <<Kw(K_resourceGroup, V_empty), Kw(K_name, V_empty)>>,
      <<Kw(K_resourceGroup, V_dev), Kw(K_name, V_empty)>>,
      <<Kw(K_name, V_empty), Kw(K_resourceGroup, V_dev)>>,
      <<Kw(K_resourceGroup, V_dev), Kw(K_name, V_list)>>,
      <<Kw(K_name, V_quote)>>,
      <<Kw(K_location, V_dev), Kw(K_resourceGroup, V_dev)>>,
      <<Kw(K_accent, V_dev)>>,
      <<Kw(K_digit, V_dev)>>,
      <<Kw(K_dashed, V_dev)>>,
      <<Kw(K_name, V_dev), Kw(K_dashed, V_dev)>>,
      <<Kw(K_where, V_empty)>>,
      <<Kw(K_where, V_dev)>>,
      <<Item(K_where, PyDict(<<Item(K_location, V_dev)>>))>>,
      <<Item(K_where, PyDict(<<Item(K_dashed, V_dev)>>))>> }

ApiRow(g, h) == [group |-> g, hostname |-> h, ip |-> Ip1, location |-> <<"e", "u">>, zones |-> <<"1">>]
\* what client.resources does: raises, or returns response.data
Responses ==
    { [kind |-> "error", data |-> <<>>],
      [kind |-> "ok", data |-> <<>>],
      [kind |-> "ok", data |-> <<ApiRow(<<"g">>, <<"h">>)>>],
      [kind |-> "ok", data |-> <<ApiRow(<<"g">>, <<"h">>), ApiRow(<<"p">>, <<"h">>)>>] }

\* binding of the call cls.query(**where) to the signature query(where)
BindQuery(kwargs) ==
    IF kwargs = <<>> THEN [error |-> "TypeError", arg |-> None]
    ELSE IF \E i \in 1..Len(kwargs) : kwargs[i].key # K_where
         THEN [error |-> "TypeError", arg |-> None]
         ELSE [error |-> "", arg |-> kwargs[1].value]

HostEntry(row) ==
    [hostname |-> row.hostname,
     data |-> [ssh_hostname |-> row.ip, location |-> row.location,
               zones |-> row.zones, group |-> row.group]]

\* data[group] += [...], groups in first-seen order
RECURSIVE GroupRows(_, _)
GroupRows(rows, data) ==
    IF rows = <<>> THEN data
    ELSE LET row == Head(rows)
             at == IF \E i \in 1..Len(data) : data[i].group = row.group
                   THEN CHOOSE i \in 1..Len(data) : data[i].group = row.group
                   ELSE 0
         IN  GroupRows(Tail(rows),
                IF at = 0
                THEN Append(data, [group |-> row.group, hosts |-> <<HostEntry(row)>>])
                ELSE [data EXCEPT ![at].hosts = Append(@, HostEntry(row))])

CallResult(error, clients, requests, submitted, data) ==
    [error |-> error, clients |-> clients, requests |-> requests,
     submitted |-> submitted, data |-> data]

\* the function body: the client is built first, the query while the
\* QueryRequest is being built, then the request is submitted
AzureVmListBody(kwargs, response) ==
    LET b == BindQuery(kwargs)
        q == Query(b.arg)
    IN  IF b.error # "" THEN CallResult(b.error, 1, 0, 0, <<>>)
        ELSE IF q.error # "" THEN CallResult(q.error, 1, 0, 0, <<>>)
        ELSE IF response.kind = "error" THEN CallResult("HttpResponseError", 1, 1, 1, <<>>)
        ELSE CallResult("", 1, 1, 1, GroupRows(response.data, <<>>))

\* functools._make_key: the positional cls, then the keyword items in call order
CacheKey(cls, kwargs) == [cls |-> cls, kwargs |-> kwargs]
Hashable(kwargs) == \A i \in 1..Len(kwargs) : kwargs[i].value.t # "dict"

CachePosition(c, key) ==
    IF \E i \in 1..Len(c) : c[i].key = key
    THEN CHOOSE i \in 1..Len(c) : c[i].key = key
    ELSE 0

RemoveAt(c, i) == SubSeq(c, 1, i - 1) \o SubSeq(c, i + 1, Len(c))

\* the lru_cache wrapper around the body: a hit refreshes the entry, a miss
\* that returns is stored and evicts the least recently used entry when full
LruCall(c, cls, kwargs, response) ==
    IF ~Hashable(kwargs)
    THEN [cache |-> c, hit |-> FALSE, out |-> CallResult("TypeError", 0, 0, 0, <<>>)]
    ELSE LET key == CacheKey(cls, kwargs)
             at  == CachePosition(c, key)
         IN  IF at # 0
             THEN [cache |-> Append(RemoveAt(c, at), c[at]), hit |-> TRUE,
                   out |-> CallResult("", 0, 0, 0, c[at].value)]
             ELSE LET out == AzureVmListBody(kwargs, response)
                      kept == IF Len(c) >= CacheSize THEN Tail(c) ELSE c
                  IN  [cache |-> IF out.error = ""
                                 THEN Append(kept, [key |-> key, value |-> out.data])
                                 ELSE c,
                       hit |-> FALSE, out |-> out]

NoCall ==
    [op |-> "none", cls |-> "", kwargs |-> <<>>, hit |-> FALSE, cached |-> FALSE,
     error |-> "", key |-> <<>>, text |-> <<>>,
     clients |-> 0, requests |-> 0, submitted |-> 0, data |-> <<>>]

AsKwargs(m) == [i \in 1..Len(m) |-> Item(m[i].key, PyStr(m[i].value))]

\* AzureConnector.query(where) called directly
AzQuery(m) ==
    /\ LET q == Query(PyDict(m))
       IN  az' = [NoCall EXCEPT !.op = "query", !.cls = "azure", !.kwargs = AsKwargs(m),
                                !.error = q.error, !.key = q.key, !.text = q.text]
    /\ azprev' = NoCall
    /\ UNCHANGED <<gen, cache, tmpfs, instfs, dest, tr>>

\* AzureConnector._azure_vm_list(**kwargs)
AzFetch(kwargs, response) ==
    /\ LET r == LruCall(cache, "azure", kwargs, response)
       IN  /\ cache' = r.cache
           /\ az' = [NoCall EXCEPT !.op = "fetch", !.cls = "azure", !.kwargs = kwargs,
                                   !.hit = r.hit,
                                   !.cached = CachePosition(cache, CacheKey("azure", kwargs)) # 0,
                                   !.error = r.out.error, !.clients = r.out.clients,
                                   !.requests = r.out.requests,
                                   !.submitted = r.out.submitted, !.data = r.out.data]
    /\ azprev' = az
    /\ UNCHANGED <<gen, tmpfs, instfs, dest, tr>>

(***************************************************************************)
(* AzureConnector._parse_name and make_names_data                          *)
(***************************************************************************)
ParseName(name) ==
    IF name.none THEN [groups |-> <<>>, hosts |-> <<>>]
    ELSE IF Contains(name.s, "/")
         THEN [groups |-> Partition(name.s, "/")[1], hosts |-> Partition(name.s, "/")[3]]
         ELSE [groups |-> <<>>, hosts |-> RemovePrefix(name.s, <<"/">>)]

RECURSIVE GroupRecords(_, _)
GroupRecords(group, hosts) ==
    IF hosts = <<>> THEN <<>>
    ELSE <<InventoryRecord(<<"@", "s", "s", "h", "/">> \o Head(hosts).hostname,
                           Head(hosts).data, <<group, <<"a", "z", "u", "r", "e">>>>)>>
         \o GroupRecords(group, Tail(hosts))

\* the records the two nested loops yield, in order
RECURSIVE Flatten(_)
Flatten(inventory) ==
    IF inventory = <<>> THEN <<>>
    ELSE GroupRecords(Head(inventory).group, Head(inventory).hosts)
         \o Flatten(Tail(inventory))

AzMakeNamesData(name) ==
    /\ GenIdle
    /\ gen' = [NoGen EXCEPT !.conn = "azure", !.pc = "created", !.name = name]
    /\ UNCHANGED <<cache, az, azprev, tmpfs, instfs, dest, tr>>

AzYield(g) ==
    IF g.idx = Len(g.inventory) THEN [g EXCEPT !.pc = "finished"]
    ELSE [g EXCEPT !.pc = "suspended", !.idx = g.idx + 1,
                   !.yielded = Append(g.yielded, g.inventory[g.idx + 1])]

\* next(): the first one parses the name and fetches, every one runs to the
\* next yield
AzNext(response) ==
    /\ gen.conn = "azure" /\ gen.pc \in {"created", "suspended"}
    /\ IF gen.pc = "created"
       THEN LET p == ParseName(gen.name)
                kw == <<Item(K_resourceGroup, PyStr(p.groups)), Item(K_name, PyStr(p.hosts))>>
                r == LruCall(cache, "azure", kw, response)
            IN  /\ cache' = r.cache
                /\ gen' = IF r.out.error # ""
                          THEN [gen EXCEPT !.pc = "raised", !.error = r.out.error,
                                           !.fetch = r.out.error]
                          ELSE AzYield([gen EXCEPT !.inventory = Flatten(r.out.data),
                                                   !.fetch = "ok"])
       ELSE /\ gen' = AzYield(gen)
            /\ cache' = cache
    /\ UNCHANGED <<az, azprev, tmpfs, instfs, dest, tr>>


(***************************************************************************)
(* The controlling machine's staging files and the hypervisor CLI          *)
(***************************************************************************)
\* tempfile picks a name no existing file has; 0 when the model has none left
FreshName == IF \E n \in 1..MaxTmp : \A f \in tmpfs : f.name # n
             THEN CHOOSE n \in 1..MaxTmp :
                      /\ \A f \in tmpfs : f.name # n
                      /\ \A k \in 1..(n - 1) : \E f \in tmpfs : f.name = k
             ELSE 0

TmpCreate(fs, n) == fs \cup {[name |-> n, content |-> <<>>]}
TmpWrite(fs, n, bytes) == {f \in fs : f.name # n} \cup {[name |-> n, content |-> bytes]}
TmpUnlink(fs, n) == {f \in fs : f.name # n}
TmpExists(fs, n) == \E f \in fs : f.name = n
TmpRead(fs, n) == (CHOOSE f \in fs : f.name = n).content

\* path.Clean of the CLI: runs of "/" collapse
RECURSIVE Clean(_)
Clean(p) ==
    IF Len(p) < 2 THEN p
    ELSE IF p[1] = "/" /\ p[2] = "/" THEN Clean(Tail(p))
    ELSE <<Head(p)>> \o Clean(Tail(p))

\* "<instance>/<path>" as the CLI reads it: instance up to the first "/",
\* the rest an absolute path inside the instance
CliFileSpec(spec) ==
    LET parts == Partition(spec, "/")
    IN  [inst |-> parts[1], path |-> Clean(<<"/">> \o parts[3])]

FsHas(fs, at) == \E f \in fs : f.inst = at.inst /\ f.path = at.path
FsRead(fs, at) == (CHOOSE f \in fs : f.inst = at.inst /\ f.path = at.path).content
FsWrite(fs, at, bytes) ==
    {f \in fs : ~(f.inst = at.inst /\ f.path = at.path)}
    \cup {[inst |-> at.inst, path |-> at.path, content |-> bytes]}

(***************************************************************************)
(* IncusConnector.__init__                                                 *)
(***************************************************************************)
\* host.name of the hosts the connectors are built for
HostNames == {<<"@", "i", "n", "c", "u", "s", "/", "c">>,
              <<"@", "l", "x", "c", "/", "d">>}

\* self.remote_instance = host.name.partition("/")[-1]
ConnectorRemoteInstance(hostname) == Partition(hostname, "/")[3]

Instances == {ConnectorRemoteInstance(h) : h \in HostNames}

(***************************************************************************)
(* IncusConnector.put_file                                                 *)
(***************************************************************************)
RemotePaths == {<<"x">>, <<"/", "x">>, <<"/", "/", "x">>}

BytesPool == {<<>>, <<97>>, <<195, 169>>}
TextPool == {<<>>, <<"a">>, <<"e'">>}

\* str.encode(): UTF-8, "e'" standing for U+00E9
RECURSIVE EncodeUtf8(_)
EncodeUtf8(text) ==
    IF text = <<>> THEN <<>>
    ELSE (IF Head(text) = "e'" THEN <<195, 169>> ELSE <<97>>) \o EncodeUtf8(Tail(text))

Source(kind, bytes, text) == [kind |-> kind, bytes |-> bytes, text |-> text]
\* filename_or_io: an existing regular file, a binary stream, a text stream,
\* or a path that names no file
Sources ==
    {Source("file", b, <<>>) : b \in BytesPool}
    \cup {Source("bytesio", b, <<>>) : b \in BytesPool}
    \cup {Source("textio", <<>>, t) : t \in TextPool}
    \cup {Source("missing", <<>>, <<>>)}

\* data.encode() if isinstance(data, str) else data
StagedBytes(src) == IF src.kind = "textio" THEN EncodeUtf8(src.text) ELSE src.bytes

NoSource == Source("none", <<>>, <<>>)
NoPrev == [put |-> FALSE, inst |-> <<>>, path |-> <<>>, bytes |-> <<>>]
NoTransfer ==
    [op |-> "none", pc |-> "idle", inst |-> <<>>, path |-> <<>>, src |-> NoSource,
     filename |-> "", temporary |-> 0, created |-> {}, status |-> "unset",
     stderr |-> <<>>, exc |-> "", msg |-> <<>>, staged |-> <<>>, prev |-> NoPrev,
     command |-> <<>>]
NoDest == [kind |-> "none", opened |-> FALSE, content |-> <<>>]

TrIdle == tr.pc \in {"idle", "returned", "raised"}

\* what the call that just returned uploaded, for the call that follows it
PrevOf(t) ==
    IF t.op = "put" /\ t.pc = "returned"
    THEN [put |-> TRUE, inst |-> t.inst, path |-> t.path, bytes |-> StagedBytes(t.src)]
    ELSE NoPrev

\* lines 167-171: a regular file is pushed as it is, anything else is staged
PutFile(inst, path, src) ==
    /\ TrIdle
    /\ tr' = [NoTransfer EXCEPT !.op = "put", !.inst = inst, !.path = path, !.src = src,
                                !.filename = IF src.kind = "file" THEN "source" ELSE "",
                                !.pc = IF src.kind = "file" THEN "push" ELSE "stage"]
    /\ dest' = NoDest
    /\ UNCHANGED <<gen, cache, az, azprev, tmpfs, instfs>>

StageFaults == {"none", "open", "mktemp", "read", "write"}

\* lines 173-182: the with block; an exception leaves it for the finally
PutStage(fault) ==
    /\ tr.op = "put" /\ tr.pc = "stage"
    /\ FreshName # 0
    /\ LET n == FreshName
       IN  IF tr.src.kind = "missing" \/ fault = "open"
           THEN /\ tr' = [tr EXCEPT !.pc = "finally", !.exc = "OSError"]
                /\ tmpfs' = tmpfs
           ELSE IF fault = "mktemp"
           THEN /\ tr' = [tr EXCEPT !.pc = "finally", !.exc = "OSError"]
                /\ tmpfs' = tmpfs
           ELSE IF fault \in {"read", "write"}
           THEN /\ tr' = [tr EXCEPT !.pc = "finally", !.exc = "OSError", !.temporary = n,
                                    !.filename = "temporary", !.created = {n}]
                /\ tmpfs' = TmpCreate(tmpfs, n)
           ELSE /\ tr' = [tr EXCEPT !.pc = "push", !.temporary = n,
                                    !.filename = "temporary", !.created = {n}]
                /\ tmpfs' = TmpWrite(TmpCreate(tmpfs, n), n, StagedBytes(tr.src))
    /\ UNCHANGED <<gen, cache, az, azprev, instfs, dest>>

CliOutcomes == {"ok", "fail", "partial", "raise"}
Stderr == <<"E", "r", "r", "o", "r">>

\* the local file the push reads
PushedBytes(t, fs) ==
    IF t.filename = "source" THEN t.src.bytes ELSE TmpRead(fs, t.temporary)

\* lines 184-194: incus file push <filename> <instance>/<remote_filename>
PutPush(cli) ==
    /\ tr.op = "put" /\ tr.pc = "push"
    /\ LET target == CliFileSpec(tr.inst \o <<"/">> \o tr.path)
       IN  IF cli = "ok"
           THEN /\ instfs' = FsWrite(instfs, target, PushedBytes(tr, tmpfs))
                /\ tr' = [tr EXCEPT !.pc = "finally", !.status = "ok"]
           ELSE IF cli = "fail"
           THEN /\ instfs' = instfs
                /\ tr' = [tr EXCEPT !.pc = "finally", !.status = "fail", !.stderr = Stderr]
           ELSE /\ instfs' = instfs
                /\ tr' = [tr EXCEPT !.pc = "finally", !.exc = "Exception"]
    /\ UNCHANGED <<gen, cache, az, azprev, tmpfs, dest>>

\* lines 195-197 (PutCleanupUnlessRaising: the unlink after the try block
\* instead of in its finally)
PutCleanupUnlessRaising(fs, t) ==
    IF t.temporary # 0 /\ t.exc = "" /\ t.status = "ok" THEN TmpUnlink(fs, t.temporary) ELSE fs

PutCleanup(fs, t) == IF t.temporary # 0 THEN TmpUnlink(fs, t.temporary) ELSE fs

PutFinally ==
    /\ tr.op = "put" /\ tr.pc = "finally"
    /\ tmpfs' = PutCleanup(tmpfs, tr)
    /\ tr' = [tr EXCEPT !.pc = IF tr.exc # "" THEN "raised" ELSE "exit"]
    /\ UNCHANGED <<gen, cache, az, azprev, instfs, dest>>

\* lines 199-208
PutExit ==
    /\ tr.op = "put" /\ tr.pc = "exit"
    /\ tr' = IF tr.status # "ok"
             THEN [tr EXCEPT !.pc = "raised", !.exc = "IOError", !.msg = tr.stderr]
             ELSE [tr EXCEPT !.pc = "returned"]
    /\ UNCHANGED <<gen, cache, az, azprev, tmpfs, instfs, dest>>

(***************************************************************************)
(* IncusConnector.get_file                                                 *)
(***************************************************************************)
OldContent == <<111>>
\* filename_or_io: a path (an existing file holding OldContent) or a stream
Destination(kind) ==
    [kind |-> kind, opened |-> FALSE, content |-> IF kind = "path" THEN OldContent ELSE <<>>]

\* line 220: with NamedTemporaryFile() as temporary
GetFile(inst, path, kind, fault) ==
    /\ TrIdle
    /\ FreshName # 0
    /\ dest' = Destination(kind)
    /\ LET n == FreshName
           t == [NoTransfer EXCEPT !.op = "get", !.inst = inst, !.path = path,
                                   !.prev = PrevOf(tr)]
       IN  IF fault = "mktemp"
           THEN /\ tr' = [t EXCEPT !.pc = "raised", !.exc = "OSError"]
                /\ tmpfs' = tmpfs
           ELSE /\ tr' = [t EXCEPT !.pc = "pull", !.temporary = n, !.created = {n}]
                /\ tmpfs' = TmpCreate(tmpfs, n)
    /\ UNCHANGED <<gen, cache, az, azprev, instfs>>

\* lines 221-231: incus file pull <instance>/<remote_filename.lstrip("/")> <temporary>
GetPull(cli) ==
    /\ tr.op = "get" /\ tr.pc = "pull"
    /\ LET source == CliFileSpec(tr.inst \o <<"/">> \o LStrip(tr.path, "/"))
           there == FsHas(instfs, source)
       IN  /\ cli = "ok" => there
           /\ cli = "partial" => there /\ FsRead(instfs, source) # <<>>
           /\ IF cli = "ok"
              THEN /\ tmpfs' = TmpWrite(tmpfs, tr.temporary, FsRead(instfs, source))
                   /\ tr' = [tr EXCEPT !.pc = "write", !.status = "ok"]
              ELSE IF cli = "partial"
              THEN /\ tmpfs' = TmpWrite(tmpfs, tr.temporary,
                                        SubSeq(FsRead(instfs, source), 1, 1))
                   /\ tr' = [tr EXCEPT !.pc = "write", !.status = "fail", !.stderr = Stderr]
              ELSE IF cli = "fail"
              THEN /\ tmpfs' = tmpfs
                   /\ tr' = [tr EXCEPT !.pc = "write", !.status = "fail", !.stderr = Stderr]
              ELSE /\ tmpfs' = tmpfs
                   /\ tr' = [tr EXCEPT !.pc = "close", !.exc = "Exception"]
    /\ UNCHANGED <<gen, cache, az, azprev, instfs, dest>>

\* temporary.read() (ReadStagingAtEof: a handle that sees none of the pulled bytes)
ReadStagingAtEof(fs, t) == <<>>
ReadStaging(fs, t) == TmpRead(fs, t.temporary)

\* get_file_io(filename_or_io, "wb") then file_io.write(...): a path is
\* truncated when opened, a stream is written where it stands
\* (DestWrittenOnSuccess: the destination touched only after a successful pull)
DestWrittenOnSuccess(d, t, bytes) ==
    IF t.status = "ok"
    THEN [d EXCEPT !.opened = TRUE, !.content = IF d.kind = "path" THEN bytes ELSE d.content \o bytes]
    ELSE d

DestWritten(d, t, bytes) ==
    [d EXCEPT !.opened = TRUE,
              !.content = IF d.kind = "path" THEN bytes ELSE d.content \o bytes]

\* lines 233-234, whatever the pull's status
GetWrite(fault) ==
    /\ tr.op = "get" /\ tr.pc = "write"
    /\ IF fault = "open"
       THEN /\ dest' = dest
            /\ tr' = [tr EXCEPT !.pc = "close", !.exc = "OSError"]
       ELSE IF fault = "write"
       THEN /\ dest' = DestWritten(dest, tr, <<>>)
            /\ tr' = [tr EXCEPT !.pc = "close", !.exc = "OSError",
                                !.staged = ReadStaging(tmpfs, tr)]
       ELSE /\ dest' = DestWritten(dest, tr, ReadStaging(tmpfs, tr))
            /\ tr' = [tr EXCEPT !.pc = "close", !.staged = ReadStaging(tmpfs, tr)]
    /\ UNCHANGED <<gen, cache, az, azprev, tmpfs, instfs>>

\* leaving the with block closes the NamedTemporaryFile, which deletes it
StagingClosed(fs, t) == TmpUnlink(fs, t.temporary)

GetClose ==
    /\ tr.op = "get" /\ tr.pc = "close"
    /\ tmpfs' = StagingClosed(tmpfs, tr)
    /\ tr' = [tr EXCEPT !.pc = IF tr.exc # "" THEN "raised" ELSE "exit"]
    /\ UNCHANGED <<gen, cache, az, azprev, instfs, dest>>

\* lines 236-245
GetExit ==
    /\ tr.op = "get" /\ tr.pc = "exit"
    /\ tr' = IF tr.status # "ok"
             THEN [tr EXCEPT !.pc = "raised", !.exc = "IOError", !.msg = tr.stderr]
             ELSE [tr EXCEPT !.pc = "returned"]
    /\ UNCHANGED <<gen, cache, az, azprev, tmpfs, instfs, dest>>

(***************************************************************************)
(* IncusConnector.run_shell_command                                        *)
(***************************************************************************)
\* a bit of a StringCommand: plain, or a QuoteString the renderer quotes
Bit(s) == [quoted |-> FALSE, s |-> s]
QuoteString(s) == [quoted |-> TRUE, s |-> s]

\* self.shell
Shell == <<"s", "h">>

\* what make_unix_command_for_host composed from the caller's command
ComposedCommands == {<<"t", "r", "u", "e">>, <<"r", "m", " ", "/", "x">>}

\* StringCommand(self.cmd, "exec", "-t" | "-T", self.remote_instance, "--",
\*               self.shell, "-c", StringCommand(QuoteString(...)))
ExecCommand(cls, get_pty, remote_instance, composed) ==
    <<Bit(Cmd(cls)), Bit(<<"e", "x", "e", "c">>),
      Bit(IF get_pty THEN <<"-", "t">> ELSE <<"-", "T">>),
      Bit(remote_instance), Bit(<<"-", "-">>), Bit(Shell), Bit(<<"-", "c">>),
      QuoteString(composed)>>

\* what the command did to the file of the instance the transfers address:
\* nothing, removed it, or wrote it
ShellEffects ==
    {[kind |-> "none", bytes |-> <<>>], [kind |-> "remove", bytes |-> <<>>]}
    \cup {[kind |-> "write", bytes |-> b] : b \in BytesPool}

FsRemove(fs, at) == {f \in fs : ~(f.inst = at.inst /\ f.path = at.path)}

\* the instance's files after the command ran inside it
InstanceAfter(fs, inst, effect) ==
    LET at == CliFileSpec(inst \o <<"/", "x">>)
    IN  IF effect.kind = "remove" THEN FsRemove(fs, at)
        ELSE IF effect.kind = "write" THEN FsWrite(fs, at, effect.bytes)
        ELSE fs

\* what the local connector does with the command: returns a status, or raises
LocalOutcomes == {"ok", "fail", "raise"}

\* lines 126-155: the command is composed and handed to the local connector,
\* whose (status, output) is returned as it is; nothing is caught, so an
\* exception of make_unix_command_for_host / extract_control_arguments
\* (fault = "compose", before anything runs) or of the local connector
\* leaves the call
RunShellCommand(cls, inst, get_pty, composed, effect, fault, local) ==
    /\ TrIdle
    /\ IF fault = "compose"
       THEN /\ tr' = [NoTransfer EXCEPT !.op = "shell", !.pc = "raised", !.inst = inst,
                                        !.exc = "Exception"]
            /\ instfs' = instfs
       ELSE /\ tr' = [NoTransfer EXCEPT
                        !.op = "shell", !.inst = inst,
                        !.command = ExecCommand(cls, get_pty, inst, composed),
                        !.pc = IF local = "raise" THEN "raised" ELSE "returned",
                        !.exc = IF local = "raise" THEN "OSError" ELSE "",
                        !.status = IF local = "raise" THEN "unset" ELSE local]
            /\ instfs' = InstanceAfter(instfs, inst, effect)
    /\ dest' = NoDest
    /\ UNCHANGED <<gen, cache, az, azprev, tmpfs>>

(***************************************************************************)
(* Specifications                                                          *)
(***************************************************************************)
Init ==
    /\ gen = NoGen
    /\ cache = <<>>
    /\ az = NoCall
    /\ azprev = NoCall
    /\ tmpfs = {}
    /\ instfs = {}
    /\ dest = NoDest
    /\ tr = NoTransfer

\* discovery on both connectors
NextDiscover ==
    \/ \E cls \in Classes, name \in NameArgs : IncusMakeNamesData(cls, name)
    \/ \E out \in ShellOutputs : IncusFirstNext(out)
    \/ IncusResume
    \/ \E name \in NameArgs : AzMakeNamesData(name)
    \/ \E response \in Responses : AzNext(response)

SpecDiscover == Init /\ [][NextDiscover]_vars

\* direct use of the cloud connector's query builder and cached fetch
NextAzure ==
    \/ \E m \in Mappings : AzQuery(m)
    \/ \E kwargs \in Kwargs, response \in Responses : AzFetch(kwargs, response)

SpecAzure == Init /\ [][NextAzure]_vars

\* uploads, downloads and commands through one connector at a time
NextTransfer ==
    \/ \E inst \in Instances, path \in RemotePaths, src \in Sources : PutFile(inst, path, src)
    \/ \E fault \in StageFaults : PutStage(fault)
    \/ \E cli \in {"ok", "fail", "raise"} : PutPush(cli)
    \/ PutFinally
    \/ PutExit
    \/ \E inst \in Instances, path \in RemotePaths, kind \in {"path", "io"},
          fault \in {"none", "mktemp"} : GetFile(inst, path, kind, fault)
    \/ \E cli \in CliOutcomes : GetPull(cli)
    \/ \E fault \in {"none", "open", "write"} : GetWrite(fault)
    \/ GetClose
    \/ GetExit
    \/ \E cls \in Classes, inst \in Instances, get_pty \in BOOLEAN,
          composed \in ComposedCommands, effect \in ShellEffects,
          fault \in {"none", "compose"}, local \in LocalOutcomes :
            RunShellCommand(cls, inst, get_pty, composed, effect, fault, local)

SpecTransfer == Init /\ [][NextTransfer]_vars

Next == NextDiscover \/ NextAzure \/ NextTransfer
Spec == Init /\ [][Next]_vars


(***************************************************************************)
(* Properties: instance discovery                                          *)
(***************************************************************************)
IncusGen == gen.conn \in Classes
Started == gen.pc \notin {"none", "created"}

\* the IPv4 address of the first device of the row that has one, <<>> if none
RECURSIVE ExposedIPv4(_)
ExposedIPv4(devices) ==
    IF devices = <<>> THEN <<>>
    ELSE IF Head(devices).ip # <<>> THEN Head(devices).ip
    ELSE ExposedIPv4(Tail(devices))

\* C4: every yielded record carries as ssh_hostname the IPv4 address of the
\* first device of its row that exposes one, and no ssh_hostname when no
\* device does.
C4_FirstIPv4IsSshHostname ==
    IncusGen =>
        \A k \in 1..Len(gen.yielded) :
            LET ip == ExposedIPv4(gen.rows[k].devices)
                data == gen.yielded[k].data
            IN  IF ip # <<>>
                THEN data.has_ssh /\ data.ssh_hostname = PyStr(ip)
                ELSE ~data.has_ssh

\* C5 as stated: for every non-empty pattern the remote prefix followed by
\* the instance part is the pattern again.
C5_RejoinReproducesPattern ==
    (IncusGen /\ Started /\ gen.remote_instance # <<>>) =>
        gen.remote \o gen.instance = gen.remote_instance

\* C5 amended: the re-join reproduces every non-empty pattern except one whose
\* part before the last delimiter is empty, which loses that delimiter.
C5_RejoinUnlessEmptyRemote ==
    (IncusGen /\ Started /\ gen.remote_instance # <<>>) =>
        gen.remote \o gen.instance =
            IF LastIndexOf(gen.remote_instance, ":") = 1
            THEN Tail(gen.remote_instance)
            ELSE gen.remote_instance

C5_Witness ==
    /\ IncusGen /\ Started
    /\ gen.remote_instance = <<"a", ":", "a">>
    /\ gen.remote = <<"a", ":">> /\ gen.instance = <<"a">>

\* C7: the identifiers yielded by one discover call are never empty and
\* pairwise distinct.
C7_IdentifiersDistinctNonEmpty ==
    \A i, j \in 1..Len(gen.yielded) :
        /\ gen.yielded[i].id # <<>>
        /\ i # j => gen.yielded[i].id # gen.yielded[j].id

\* C8 as stated: a discover call that fails has yielded no record.
C8_NoRecordBeforeFailure ==
    gen.pc = "raised" => gen.yielded = <<>>

\* C8 amended: a discover call that fails in the list/query call, or on output
\* that is no JSON, or anywhere in the cloud connector's fetch, has yielded no
\* record; one that fails on a malformed row has yielded exactly the records
\* of the rows before it.
C8_NoRecordUnlessRowFailure ==
    gen.pc = "raised" =>
        IF gen.conn = "azure" \/ gen.error \in {"PyinfraError", "JSONDecodeError"}
        THEN gen.yielded = <<>>
        ELSE /\ gen.error \in {"KeyError", "TypeError"}
             /\ gen.idx >= 1
             /\ Len(gen.yielded) = gen.idx - 1
             /\ \A k \in 1..Len(gen.yielded) :
                    gen.yielded[k].data.identifier = gen.remote \o gen.rows[k].name

C8_Witness ==
    /\ IncusGen /\ gen.pc = "raised" /\ gen.error = "TypeError"
    /\ gen.idx = 2 /\ Len(gen.yielded) = 1

(***************************************************************************)
(* Properties: cloud query and fetch                                       *)
(***************************************************************************)
FieldNamesAlphabetic(kwargs) == \A i \in 1..Len(kwargs) : IsAlpha(kwargs[i].key)
\* a filter mapping of alphabetic field names to strings
ValidFilters(kwargs) ==
    /\ FieldNamesAlphabetic(kwargs)
    /\ \A i \in 1..Len(kwargs) : kwargs[i].value.t = "str"

\* C2: of two fetches in a row with the same filter mapping, the first one not
\* yet cached, exactly one submits a query, the second is served from the
\* cache, and both return the same structure.
C2_SecondFetchFromCache ==
    ( /\ az.op = "fetch" /\ azprev.op = "fetch"
      /\ az.kwargs = azprev.kwargs /\ ValidFilters(az.kwargs)
      /\ ~azprev.cached
      /\ azprev.error # "HttpResponseError" ) =>
        /\ azprev.submitted + az.submitted = 1
        /\ az.hit
        /\ azprev.error = "" /\ az.error = ""
        /\ az.data = azprev.data

\* C3: query never raises when every field name is alphabetic, and a fetch
\* with a field name that is not fails with ValueError, no request built and
\* no query submitted.
C3_ValidationBeforeClientCall ==
    /\ (az.op = "query" /\ FieldNamesAlphabetic(az.kwargs)) => az.error = ""
    /\ (az.op = "fetch" /\ ~FieldNamesAlphabetic(az.kwargs)) =>
            az.error = "ValueError" /\ az.requests = 0 /\ az.submitted = 0

\* C9: the cache never holds more than 8 entries, and a fetch of a valid
\* filter mapping goes without an external query exactly when the mapping is
\* in the cache.
C9_ServedFromCacheIffCached ==
    /\ Len(cache) <= CacheSize
    /\ (az.op = "fetch" /\ ValidFilters(az.kwargs)) =>
            ((az.submitted = 0) <=> az.cached)

(***************************************************************************)
(* Properties: file transfer                                               *)
(***************************************************************************)
Finished == tr.pc \in {"returned", "raised"}

\* C1: when put_file or get_file returns or raises, no staging file the call
\* created exists any more.
C1_NoStagingFileLeft ==
    Finished => \A n \in tr.created : ~TmpExists(tmpfs, n)

C1_Witness ==
    /\ tr.op = "put" /\ tr.pc = "raised" /\ tr.exc = "OSError"
    /\ tr.created # {} /\ tmpfs = {}

\* C6: a download that returns, right after a successful upload of bytes B to
\* the same path of the same instance (no other call of the connector in
\* between), has written exactly B to its destination.
C6_UploadThenDownloadRoundTrip ==
    ( /\ tr.op = "get" /\ tr.pc = "returned"
      /\ tr.prev.put /\ tr.prev.inst = tr.inst /\ tr.prev.path = tr.path ) =>
        dest.opened /\ dest.content = tr.prev.bytes

C6_Witness ==
    /\ tr.op = "get" /\ tr.pc = "returned"
    /\ tr.prev.put /\ tr.prev.inst = tr.inst /\ tr.prev.path = tr.path
    /\ tr.path = <<"/", "x">> /\ dest.content = <<195, 169>>

FailedPull == tr.op = "get" /\ tr.pc = "raised" /\ tr.status = "fail" /\ tr.exc = "IOError"

\* C10 as stated: when the pull reports non-success, get_file raises with the
\* captured stderr and has not opened or written the destination.
C10_DestinationUntouchedOnFailedPull ==
    FailedPull => tr.msg = tr.stderr /\ ~dest.opened /\ dest = Destination(dest.kind)

\* C10 amended: when the pull reports non-success, get_file raises with the
\* captured stderr after it has opened the destination for writing and
\* written to it whatever the staging file held.
C10_DestinationWrittenBeforeFailure ==
    /\ FailedPull => /\ tr.msg = Stderr
                     /\ dest.opened
                     /\ dest.content = tr.staged
    /\ (tr.op = "get" /\ tr.pc = "raised" /\ tr.status = "fail" /\ ~dest.opened) =>
            tr.exc = "OSError"

C10_Witness ==
    /\ FailedPull /\ dest.kind = "path" /\ dest.opened
    /\ dest.content = <<>> /\ dest.content # OldContent


====
